---------------------------- MODULE Spec2Model ----------------------------
(***************************************************************************)
(* State-machine model of the murder-mystery game engine                   *)
(* (backend/game/engine.py, turns.py, locations.py, clues.py,              *)
(* knowledge.py).                                                          *)
(*                                                                         *)
(* Granularity: the engine is asyncio code, so everything between two      *)
(* awaits on the LLM client is one atomic step.  Every action below is     *)
(* either the call of an engine coroutine up to its first suspension (or   *)
(* up to its return / raise), or the resumption of a suspended coroutine   *)
(* with the outcome of the oracle call it was waiting for.                 *)
(*                                                                         *)
(* Names are unique keys of characters (player "P", roster NPCs "A", "B",  *)
(* victim "V"); "Z" and "L9" stand for names / location ids that the       *)
(* session does not define.                                                *)
(***************************************************************************)
EXTENDS Integers, Sequences, FiniteSets, TLC

---------------------------------------------------------------------------
(* Bounds of the model *)

MaxTurnsCfg == 2
MaxBinds == 2
MaxTasks == 2

---------------------------------------------------------------------------
(* Enumerations and the fixed world the scenario generator may emit *)

SETUP == "setup"
SCENARIO_GEN == "scenario_gen"
PLAYING == "playing"
ACCUSATION == "accusation"
RESULTS == "results"
FINISHED == "finished"
NO_SESSION == "no_session"

GameState == {SETUP, SCENARIO_GEN, PLAYING, ACCUSATION, RESULTS, FINISHED}

NONE == "none"
DETECTIVE_WINS == "detective_wins"
KILLER_WINS == "killer_wins"
TIMEOUT == "timeout"
WRONG_ACCUSATION == "wrong_accusation"

GameResult == {DETECTIVE_WINS, KILLER_WINS, TIMEOUT, WRONG_ACCUSATION}

DETECTIVE == "detective"
KILLER == "killer"
VICTIM == "victim"

MOVE == "move"
TALK == "talk"
INVESTIGATE == "investigate"
ACCUSE == "accuse"
WAIT == "wait"

ActionType == {MOVE, TALK, INVESTIGATE, ACCUSE, WAIT}

Player == "P"
Victim == "V"
Npcs == <<"A", "B", "C", "D">>
NpcSet == {Npcs[i] : i \in DOMAIN Npcs}
Names == {Player, Victim, "Z"} \cup NpcSet

AllCharacters == {Player, Victim} \cup NpcSet

\* the generator's location list is not validated: "L3" has an edge to "L1"
\* that "L1" does not return, and an edge to "L9", which is no location
LocationDefs ==
    << [id |-> "L1", connected_to |-> <<"L2">>],
       [id |-> "L2", connected_to |-> <<"L1">>],
       [id |-> "L3", connected_to |-> <<"L1", "L9">>] >>
LocIds == {LocationDefs[i].id : i \in DOMAIN LocationDefs}
Targets == LocIds \cup {"L9"}

ScenarioClues ==
    << [id |-> "c1", difficulty |-> "easy",   found_at |-> "L1"],
       [id |-> "c2", difficulty |-> "medium", found_at |-> "A"],
       [id |-> "c3", difficulty |-> "hard",   found_at |-> "L2"],
       [id |-> "c4", difficulty |-> "medium", found_at |-> "L2"],
       [id |-> "c5", difficulty |-> "hard",   found_at |-> "A"] >>
ClueIds == {ScenarioClues[i].id : i \in DOMAIN ScenarioClues}

ScenarioKillers == {"A", "B", "X"}

TaskIds == 1 .. MaxTasks

---------------------------------------------------------------------------
VARIABLES
    llm_client,          \* GameEngine.llm_client is set
    settings_max_turns,  \* settings.game.max_turns
    session,             \* GameEngine.session is not None
    state,               \* session.state
    result,              \* session.result
    player_role,         \* session.player.assigned_role
    npc_roles,           \* npc.assigned_role for the roster
    scenario,            \* session.scenario: bound flag and murder.killer
    max_turns,           \* session.max_turns
    current_turn,        \* session.current_turn
    turn_history,        \* session.turn_history (turn numbers)
    bind_count,          \* generation of the four managers, 0 = None
    clues,               \* ClueManager._clues runtime state
    char_loc,            \* LocationManager._character_locations
    loc_keys,            \* insertion order of _character_locations
    present,             \* Location.characters_present per location
    killer_name,         \* KnowledgeManager._killer_name
    conv_had,            \* len(conversations_had) per knowledge state
    tm_turn,             \* TurnManager.current_turn
    conv_hist,           \* len(TurnManager.conversation_histories[n])
    tm_history,          \* TurnManager.turn_history (number, NPC actions)
    task,                \* suspended engine coroutines
    lastOp               \* the step just taken: operation and outcome

sessionVars == <<session, state, result, player_role, npc_roles, scenario,
                 max_turns, current_turn, turn_history, bind_count>>
clueVars == <<clues>>
locVars == <<char_loc, loc_keys, present>>
knowVars == <<killer_name, conv_had>>
tmVars == <<tm_turn, conv_hist, tm_history>>
managerVars == <<clueVars, locVars, knowVars, tmVars>>
vars == <<llm_client, settings_max_turns, sessionVars, managerVars,
          task, lastOp>>


---------------------------------------------------------------------------
(* Sequence helpers *)

InSeq(s, x) == \E i \in DOMAIN s : s[i] = x

RECURSIVE RemoveFirst(_, _)
\* list.remove(x): drops the first occurrence of x
RemoveFirst(s, x) ==
    IF s = <<>> THEN <<>>
    ELSE IF Head(s) = x THEN Tail(s)
    ELSE <<Head(s)>> \o RemoveFirst(Tail(s), x)

---------------------------------------------------------------------------
(* LocationManager (locations.py).  lm = [char_loc, loc_keys, present] *)

EmptyLM ==
    [char_loc |-> [c \in Names |-> NONE],
     loc_keys |-> <<>>,
     present  |-> [l \in LocIds |-> <<>>]]

LM == [char_loc |-> char_loc, loc_keys |-> loc_keys, present |-> present]

connected_to(l) ==
    LET d == CHOOSE i \in DOMAIN LocationDefs : LocationDefs[i].id = l
    IN  LocationDefs[d].connected_to

get_character_location(lm, c) == lm.char_loc[c]

get_characters_at(lm, l) == IF l \in LocIds THEN lm.present[l] ELSE <<>>

get_location(l) == l \in LocIds

place_character(lm, c, l) ==
    LET old == lm.char_loc[c]
        pr1 == IF old # NONE /\ old \in LocIds /\ InSeq(lm.present[old], c)
               THEN [lm.present EXCEPT ![old] = RemoveFirst(@, c)]
               ELSE lm.present
    IN  IF l \in LocIds
        THEN [char_loc |-> [lm.char_loc EXCEPT ![c] = l],
              loc_keys |-> IF InSeq(lm.loc_keys, c) THEN lm.loc_keys
                           ELSE Append(lm.loc_keys, c),
              present  |-> [pr1 EXCEPT ![l] = Append(@, c)]]
        ELSE [lm EXCEPT !.present = pr1]

\* the adjacency test of line 85 read from either side of the edge
move_character_symmetric(lm, c, target) ==
    LET current == get_character_location(lm, c)
    IN  IF current = NONE
        THEN [ok |-> TRUE, lm |-> place_character(lm, c, target)]
        ELSE IF current \notin LocIds
        THEN [ok |-> FALSE, lm |-> lm]
        ELSE IF ~InSeq(connected_to(current), target)
                /\ ~(target \in LocIds /\ InSeq(connected_to(target), current))
        THEN [ok |-> FALSE, lm |-> lm]
        ELSE [ok |-> TRUE, lm |-> place_character(lm, c, target)]

\* returns [ok, lm]
move_character(lm, c, target) ==
    LET current == get_character_location(lm, c)
    IN  IF current = NONE
        THEN [ok |-> TRUE, lm |-> place_character(lm, c, target)]
        ELSE IF current \notin LocIds
        THEN [ok |-> FALSE, lm |-> lm]
        ELSE IF ~InSeq(connected_to(current), target)
        THEN [ok |-> FALSE, lm |-> lm]
        ELSE [ok |-> TRUE, lm |-> place_character(lm, c, target)]

RECURSIVE GroupInto(_, _, _)
\* one pass of the loop of get_npcs_grouped_by_location over the keys
GroupInto(groups, keys, lm) ==
    IF keys = <<>> THEN groups
    ELSE LET c == Head(keys)
             l == lm.char_loc[c]
             hit == {i \in DOMAIN groups : groups[i].loc = l}
             g2 == IF hit = {}
                   THEN Append(groups, [loc |-> l, members |-> <<c>>])
                   ELSE LET i == CHOOSE j \in hit : TRUE
                        IN  [groups EXCEPT ![i].members = Append(@, c)]
         IN  GroupInto(g2, Tail(keys), lm)

\* the grouping without the test of the excluded name
get_npcs_grouped_by_location_all(lm, exclude) ==
    GroupInto(<<>>, lm.loc_keys, lm)

\* dict location_id -> names, as the sequence of its items in dict order
get_npcs_grouped_by_location(lm, exclude) ==
    GroupInto(<<>>, SelectSeq(lm.loc_keys, LAMBDA c : c # exclude), lm)

---------------------------------------------------------------------------
(* ClueManager (clues.py).  cs = [clue id -> runtime state] *)

Undiscovered ==
    [discovered |-> FALSE, discovered_by |-> "", discovered_at_turn |-> 0]

NoClues == [k \in ClueIds |-> Undiscovered]

ClueDef(k) ==
    LET d == CHOOSE i \in DOMAIN ScenarioClues : ScenarioClues[i].id = k
    IN  ScenarioClues[d]

ClueOrder == [i \in DOMAIN ScenarioClues |-> ScenarioClues[i].id]

\* the test of line 76 left out: a discovered clue is stamped again
discover_clue_overwrite(cs, k, by, turn) ==
    IF k \notin ClueIds THEN [ret |-> FALSE, cs |-> cs]
    ELSE [ret |-> TRUE,
          cs  |-> [cs EXCEPT ![k] = [discovered |-> TRUE,
                                     discovered_by |-> by,
                                     discovered_at_turn |-> turn]]]

\* returns [ret, cs]; ret is FALSE for the None result
discover_clue(cs, k, by, turn) ==
    IF k \notin ClueIds THEN [ret |-> FALSE, cs |-> cs]
    ELSE IF cs[k].discovered THEN [ret |-> FALSE, cs |-> cs]
    ELSE [ret |-> TRUE,
          cs  |-> [cs EXCEPT ![k] = [discovered |-> TRUE,
                                     discovered_by |-> by,
                                     discovered_at_turn |-> turn]]]

\* the clues of every room, wherever the search takes place
get_clues_at_location_anywhere(cs, l) ==
    SelectSeq(ClueOrder,
              LAMBDA k : ClueDef(k).found_at \in LocIds /\ ~cs[k].discovered)

get_clues_at_location(cs, l) ==
    SelectSeq(ClueOrder,
              LAMBDA k : ClueDef(k).found_at = l /\ ~cs[k].discovered)

get_clues_from_npc(cs, n) ==
    SelectSeq(ClueOrder,
              LAMBDA k : ClueDef(k).found_at = n /\ ~cs[k].discovered)

discovered_count(cs) == Cardinality({k \in ClueIds : cs[k].discovered})

---------------------------------------------------------------------------
(* Suspended coroutines and the record of the last step *)

Idle == [pc |-> "idle", op |-> "", target |-> "", called_in |-> "",
         turn_number |-> 0, groups |-> <<>>,
         response |-> "", clues_discovered |-> <<>>]

\* op: the engine method; outcome: what the step did to the call; called_in:
\* session.state when the method was called; arg: the accused name;
\* error: the exception raised, or the oracle failure that was caught
Ev(op, outcome, called_in, arg, error) ==
    [op |-> op, outcome |-> outcome, called_in |-> called_in, arg |-> arg,
     error |-> error]

SUSPENDED == "suspended"
RETURNED == "returned"
RAISED == "raised"

\* the record of a direct call of a manager method: who and arg are its
\* arguments, ret is what it returned
ManagerCall(op, who, arg, turn, ret) ==
    [op |-> op, outcome |-> RETURNED, called_in |-> "", arg |-> arg,
     error |-> "", who |-> who, turn |-> turn, ret |-> ret]

\* KnowledgeManager.is_killer
is_killer(n) == n = killer_name

\* session.state as a caller sees it
CurState == IF ~session THEN NO_SESSION ELSE state

TurnOps == {"player_move", "player_talk", "player_investigate", "player_wait"}

\* player_wait submitting an INVESTIGATE action
ActionOf_searching(op) ==
    CASE op = "player_move" -> MOVE
      [] op = "player_talk" -> TALK
      [] OTHER -> INVESTIGATE

ActionOf(op) ==
    CASE op = "player_move" -> MOVE
      [] op = "player_talk" -> TALK
      [] op = "player_investigate" -> INVESTIGATE
      [] OTHER -> WAIT

---------------------------------------------------------------------------
(* GameEngine.new_game / initialize (engine.py) *)

Init ==
    /\ llm_client = FALSE
    /\ settings_max_turns \in {0, MaxTurnsCfg}
    /\ session = FALSE
    /\ state = NO_SESSION
    /\ result = NONE
    /\ player_role = NONE
    /\ npc_roles = [n \in NpcSet |-> NONE]
    /\ scenario = [bound |-> FALSE, killer |-> ""]
    /\ max_turns = 0
    /\ current_turn = 0
    /\ turn_history = <<>>
    /\ bind_count = 0
    /\ clues = NoClues
    /\ char_loc = EmptyLM.char_loc
    /\ loc_keys = EmptyLM.loc_keys
    /\ present = EmptyLM.present
    /\ killer_name = ""
    /\ conv_had = [n \in NpcSet |-> 0]
    /\ tm_turn = 0
    /\ conv_hist = [n \in Names |-> 0]
    /\ tm_history = <<>>
    /\ task = [t \in TaskIds |-> Idle]
    /\ lastOp = Ev("", "", "", "", "")

ManagersNone ==
    /\ clues' = NoClues
    /\ char_loc' = EmptyLM.char_loc
    /\ loc_keys' = EmptyLM.loc_keys
    /\ present' = EmptyLM.present
    /\ killer_name' = ""
    /\ conv_had' = [n \in NpcSet |-> 0]
    /\ tm_turn' = 0
    /\ conv_hist' = [n \in Names |-> 0]
    /\ tm_history' = <<>>

\* the body of new_game after the LLM client is there
create_session(t, player_role_arg, pool_ok) ==
    IF ~pool_ok
    THEN /\ task' = [task EXCEPT ![t] = Idle]
         /\ lastOp' = Ev("new_game", RAISED, CurState, "", "ValueError")
         /\ UNCHANGED <<sessionVars, managerVars>>
    ELSE /\ session' = TRUE
         /\ state' = SETUP
         /\ result' = NONE
         /\ player_role' = IF player_role_arg = "detective"
                           THEN DETECTIVE ELSE KILLER
         /\ npc_roles' = [n \in NpcSet |-> NONE]
         /\ scenario' = [bound |-> FALSE, killer |-> ""]
         /\ max_turns' = settings_max_turns
         /\ current_turn' = 0
         /\ turn_history' = <<>>
         /\ bind_count' = 0
         /\ ManagersNone
         /\ task' = [task EXCEPT ![t] = Idle]
         /\ lastOp' = Ev("new_game", RETURNED, CurState, "", "")

new_game(t, player_role_arg, pool_ok) ==
    /\ task[t].pc = "idle"
    /\ UNCHANGED settings_max_turns
    /\ IF ~llm_client
       THEN \* initialize(): the client is stored, then the check is awaited
            /\ llm_client' = TRUE
            /\ task' = [task EXCEPT ![t] =
                   [Idle EXCEPT !.pc = "init_wait", !.op = "new_game",
                                !.target = player_role_arg,
                                !.called_in = CurState]]
            /\ lastOp' = Ev("new_game", SUSPENDED, CurState, "", "")
            /\ UNCHANGED <<sessionVars, managerVars>>
       ELSE /\ UNCHANGED llm_client
            /\ create_session(t, player_role_arg, pool_ok)

\* check_connection() answered
new_game_resume(t, connected, pool_ok) ==
    /\ task[t].pc = "init_wait"
    /\ UNCHANGED <<llm_client, settings_max_turns>>
    /\ IF ~connected
       THEN /\ task' = [task EXCEPT ![t] = Idle]
            /\ lastOp' = Ev("new_game", RAISED, task[t].called_in, "",
                            "ConnectionError")
            /\ UNCHANGED <<sessionVars, managerVars>>
       ELSE create_session(t, task[t].target, pool_ok)

---------------------------------------------------------------------------
(* GameEngine.generate_game_scenario and the _init_* methods (engine.py) *)

\* the index of the first roster NPC that is in S, 0 if none
FirstNpc(S) ==
    LET hit == {i \in DOMAIN Npcs : Npcs[i] \in S}
    IN  IF hit = {} THEN 0 ELSE CHOOSE i \in hit : \A j \in hit : i <= j

\* the loop of lines 168-171 without its break
assign_roles_no_break(roles, prole, killer) ==
    LET r1 == IF prole = KILLER
              THEN [n \in NpcSet |->
                       IF roles[n] # VICTIM THEN DETECTIVE ELSE roles[n]]
              ELSE roles
        k  == FirstNpc({killer})
    IN  IF prole = DETECTIVE /\ k # 0
        THEN [r1 EXCEPT ![Npcs[k]] = KILLER] ELSE r1

\* lines 165-179: the roles after the bind
assign_roles(roles, prole, killer) ==
    LET d  == FirstNpc({n \in NpcSet : roles[n] # VICTIM})
        r1 == IF prole = KILLER /\ d # 0
              THEN [roles EXCEPT ![Npcs[d]] = DETECTIVE] ELSE roles
        k  == FirstNpc({killer})
    IN  IF prole = DETECTIVE /\ k # 0
        THEN [r1 EXCEPT ![Npcs[k]] = KILLER] ELSE r1

\* lines 166, 172: scenario.murder.killer after the bind
bound_killer(prole, killer) == IF prole = KILLER THEN Player ELSE killer

RECURSIVE PlaceNpcs(_, _, _)
PlaceNpcs(lm, i, where) ==
    IF i > Len(Npcs) THEN lm
    ELSE PlaceNpcs(place_character(lm, Npcs[i], where[Npcs[i]]), i + 1, where)

\* _init_locations: the player at the first location, every NPC at its
\* default or at a random location
init_locations(where) ==
    PlaceNpcs(place_character(EmptyLM, Player, LocationDefs[1].id), 1, where)

generate_game_scenario(t) ==
    /\ task[t].pc = "idle"
    /\ bind_count < MaxBinds
    /\ UNCHANGED <<llm_client, settings_max_turns>>
    /\ IF ~session \/ ~llm_client
       THEN /\ task' = [task EXCEPT ![t] = Idle]
            /\ lastOp' = Ev("generate_game_scenario", RAISED, CurState, "",
                            "Call new_game() first")
            /\ UNCHANGED <<sessionVars, managerVars>>
       ELSE /\ state' = SCENARIO_GEN
            /\ task' = [task EXCEPT ![t] =
                   [Idle EXCEPT !.pc = "gen_wait",
                                !.op = "generate_game_scenario",
                                !.called_in = CurState]]
            /\ lastOp' = Ev("generate_game_scenario", SUSPENDED, CurState,
                            "", "")
            /\ UNCHANGED <<session, result, player_role, npc_roles, scenario,
                           max_turns, current_turn, turn_history, bind_count,
                           managerVars>>

\* line 186 moved before the await of line 157
generate_failed_playing(t) ==
    /\ task' = [task EXCEPT ![t] = Idle]
    /\ lastOp' = Ev("generate_game_scenario", RAISED, task[t].called_in, "",
                    "generation failed")
    /\ state' = PLAYING
    /\ UNCHANGED <<session, result, player_role, npc_roles, scenario,
                   max_turns, current_turn, turn_history, bind_count,
                   managerVars>>

\* generate_scenario() raised: nothing after line 157 runs
generate_failed(t) ==
    /\ task' = [task EXCEPT ![t] = Idle]
    /\ lastOp' = Ev("generate_game_scenario", RAISED, task[t].called_in, "",
                    "generation failed")
    /\ UNCHANGED <<sessionVars, managerVars>>

\* lines 163-190 with the scenario the generator returned
bind_scenario(t, killer, where) ==
    LET lm == init_locations(where)
    IN  /\ scenario' = [bound |-> TRUE,
                        killer |-> bound_killer(player_role, killer)]
        /\ npc_roles' = assign_roles(npc_roles, player_role, killer)
        /\ clues' = NoClues
        /\ char_loc' = lm.char_loc
        /\ loc_keys' = lm.loc_keys
        /\ present' = lm.present
        /\ killer_name' = bound_killer(player_role, killer)
        /\ conv_had' = [n \in NpcSet |-> 0]
        /\ tm_turn' = 0
        /\ conv_hist' = [n \in Names |-> 0]
        /\ tm_history' = <<>>
        /\ bind_count' = bind_count + 1
        /\ state' = PLAYING
        /\ task' = [task EXCEPT ![t] = Idle]
        /\ lastOp' = Ev("generate_game_scenario", RETURNED,
                        task[t].called_in, "", "")
        /\ UNCHANGED <<session, result, player_role, max_turns, current_turn,
                       turn_history>>

generate_resume(t, ok, killer, where) ==
    /\ task[t].pc = "gen_wait"
    /\ UNCHANGED <<llm_client, settings_max_turns>>
    /\ IF ok THEN bind_scenario(t, killer, where) ELSE generate_failed(t)

---------------------------------------------------------------------------
(* GameEngine.player_accuse / _generate_ending (engine.py) *)

\* the branches of line 289 exchanged
accusation_result_swapped(prole, suspect_name, actual_killer) ==
    IF prole = DETECTIVE
    THEN IF suspect_name = actual_killer
         THEN WRONG_ACCUSATION ELSE DETECTIVE_WINS
    ELSE KILLER_WINS

\* lines 288-298
accusation_result(prole, suspect_name, actual_killer) ==
    IF prole = DETECTIVE
    THEN IF suspect_name = actual_killer
         THEN DETECTIVE_WINS ELSE WRONG_ACCUSATION
    ELSE KILLER_WINS

\* line 300 left out on a bound session: the state set at line 285 stays
player_accuse_no_results(t, suspect_name) ==
    /\ task[t].pc = "idle"
    /\ session
    /\ scenario.bound
    /\ result' = accusation_result(player_role, suspect_name, scenario.killer)
    /\ state' = ACCUSATION
    /\ task' = [task EXCEPT ![t] =
           [Idle EXCEPT !.pc = "ending_wait", !.op = "player_accuse",
                        !.target = suspect_name, !.called_in = CurState]]
    /\ lastOp' = Ev("player_accuse", SUSPENDED, CurState, suspect_name, "")
    /\ UNCHANGED <<llm_client, settings_max_turns, managerVars, session,
                   player_role, npc_roles, scenario, max_turns, current_turn,
                   turn_history, bind_count>>

player_accuse(t, suspect_name) ==
    /\ task[t].pc = "idle"
    /\ UNCHANGED <<llm_client, settings_max_turns, managerVars>>
    /\ IF ~session
       THEN /\ task' = [task EXCEPT ![t] = Idle]
            /\ lastOp' = Ev("player_accuse", RAISED, CurState, suspect_name,
                            "No active game session")
            /\ UNCHANGED sessionVars
       ELSE IF ~scenario.bound
       THEN \* line 286 raises on session.scenario = None, after line 285
            /\ state' = ACCUSATION
            /\ task' = [task EXCEPT ![t] = Idle]
            /\ lastOp' = Ev("player_accuse", RAISED, CurState, suspect_name,
                            "AttributeError")
            /\ UNCHANGED <<session, result, player_role, npc_roles, scenario,
                           max_turns, current_turn, turn_history, bind_count>>
       ELSE /\ result' = accusation_result(player_role, suspect_name,
                                           scenario.killer)
            /\ state' = RESULTS
            /\ task' = [task EXCEPT ![t] =
                   [Idle EXCEPT !.pc = "ending_wait", !.op = "player_accuse",
                                !.target = suspect_name,
                                !.called_in = CurState]]
            /\ lastOp' = Ev("player_accuse", SUSPENDED, CurState,
                            suspect_name, "")
            /\ UNCHANGED <<session, player_role, npc_roles, scenario, max_turns,
                           current_turn, turn_history, bind_count>>

\* _generate_ending without its try/except: the oracle's failure propagates
accuse_resume_propagates(t, ok) ==
    /\ task[t].pc = "ending_wait"
    /\ task' = [task EXCEPT ![t] = Idle]
    /\ lastOp' = Ev("player_accuse", IF ok THEN RETURNED ELSE RAISED,
                    task[t].called_in, task[t].target,
                    IF ok THEN "" ELSE "oracle failed")
    /\ UNCHANGED <<llm_client, settings_max_turns, sessionVars, managerVars>>

\* the oracle call of _generate_ending answered or failed: both return
accuse_resume(t, ok) ==
    /\ task[t].pc = "ending_wait"
    /\ task' = [task EXCEPT ![t] = Idle]
    /\ lastOp' = Ev("player_accuse", RETURNED, task[t].called_in,
                    task[t].target, IF ok THEN "" ELSE "oracle failed (caught)")
    /\ UNCHANGED <<llm_client, settings_max_turns, sessionVars, managerVars>>

---------------------------------------------------------------------------
(* TurnManager (turns.py): the player's action *)

NpcReplies ==
    {[ok |-> FALSE, action |-> "", target |-> "", dialogue |-> ""]}
    \cup [ok : {TRUE}, action : {TALK, INVESTIGATE, ACCUSE, WAIT, "dance"},
          target : {""}, dialogue : {"", "d"}]
    \cup [ok : {TRUE}, action : {MOVE}, target : Targets, dialogue : {"", "d"}]

RoleOf(n) ==
    IF n = Player THEN player_role
    ELSE IF n = Victim THEN VICTIM
    ELSE IF n \in NpcSet THEN npc_roles[n]
    ELSE NONE

\* a medium clue told in the first conversation already
talk_reveals_first(d, history_len) ==
    d = "easy" \/ (d = "medium" /\ history_len >= 2)

\* lines 275-278: is a clue of difficulty d told at this length of history?
talk_reveals(d, history_len) ==
    d = "easy" \/ (d = "medium" /\ history_len >= 4)

\* every clue of the room found, whatever its difficulty
search_finds_any(d, k, lucky) == TRUE

\* lines 304 and 309: is clue k of difficulty d found by this search?
search_finds(d, k, lucky) == d = "easy" \/ (d = "medium" /\ k \in lucky)

\* every NPC is told of the conversation
record_conversation_all(conv, char_name) == [n \in NpcSet |-> conv[n] + 1]

\* KnowledgeManager.record_conversation: only a character with a knowledge
\* state keeps the record
record_conversation(conv, char_name) ==
    IF char_name \in NpcSet THEN [conv EXCEPT ![char_name] = @ + 1] ELSE conv

\* KnowledgeManager.get_player_visible_info: the owners of the alibis listed
known_alibis(conv) == {n \in NpcSet : conv[n] > 0}

RECURSIVE RevealFromTalk(_, _, _, _)
\* lines 273-283: the loop over the clues the NPC can reveal
RevealFromTalk(cs, ks, history_len, turn) ==
    IF ks = <<>> THEN cs
    ELSE LET k == Head(ks)
             d == ClueDef(k).difficulty
             hit == talk_reveals(d, history_len)
             cs2 == IF hit THEN discover_clue(cs, k, Player, turn).cs ELSE cs
         IN  RevealFromTalk(cs2, Tail(ks), history_len, turn)

RECURSIVE RevealFromInvestigate(_, _, _, _)
\* lines 303-313: lucky holds the clues for which random.random() > 0.4
RevealFromInvestigate(cs, ks, lucky, turn) ==
    IF ks = <<>> THEN cs
    ELSE LET k == Head(ks)
             d == ClueDef(k).difficulty
             hit == search_finds(d, k, lucky)
             cs2 == IF hit THEN discover_clue(cs, k, Player, turn).cs ELSE cs
         IN  RevealFromInvestigate(cs2, Tail(ks), lucky, turn)

\* the search run on a ledger loaded afresh
handle_player_investigate_fresh(cs, lm, lucky, turn) ==
    LET player_loc == get_character_location(lm, Player)
    IN  IF player_loc = NONE THEN cs
        ELSE RevealFromInvestigate(NoClues,
                                   get_clues_at_location(NoClues, player_loc),
                                   lucky, turn)

\* _handle_player_investigate
handle_player_investigate(cs, lm, lucky, turn) ==
    LET player_loc == get_character_location(lm, Player)
    IN  IF player_loc = NONE THEN cs
        ELSE RevealFromInvestigate(cs, get_clues_at_location(cs, player_loc),
                                   lucky, turn)

RECURSIVE FoundByInvestigate(_, _)
\* lines 303-313: the ids the loop appends to result.clues_discovered
FoundByInvestigate(ks, lucky) ==
    IF ks = <<>> THEN <<>>
    ELSE LET k == Head(ks)
             d == ClueDef(k).difficulty
             hit == search_finds(d, k, lucky)
         IN  (IF hit THEN <<k>> ELSE <<>>)
             \o FoundByInvestigate(Tail(ks), lucky)

\* _handle_player_investigate: result.clues_discovered
investigate_found(cs, lm, lucky) ==
    LET player_loc == get_character_location(lm, Player)
    IN  IF player_loc = NONE THEN <<>>
        ELSE FoundByInvestigate(get_clues_at_location(cs, player_loc), lucky)

\* the reply of the NPC the player talks to, with what line 283 adds
Dialogue == "dialogue"

\* _resolve_player_action: the response text, by its opening words; the
\* response of a TALK that reaches the oracle is set when the reply is there
player_action_response(op, target, lucky, lm, cs) ==
    LET player_loc == get_character_location(lm, Player)
    IN  CASE ActionOf(op) = MOVE ->
                IF move_character(lm, Player, target).ok
                THEN "You move to" ELSE "You can't reach that location"
          [] ActionOf(op) = TALK ->
                IF target \notin AllCharacters THEN "There's no one named"
                ELSE IF player_loc # get_character_location(lm, target)
                THEN "isn't here" ELSE ""
          [] ActionOf(op) = INVESTIGATE ->
                IF player_loc = NONE THEN "You need to be at a location"
                ELSE IF get_clues_at_location(cs, player_loc) = <<>>
                THEN "You search the area carefully but find nothing new"
                ELSE IF investigate_found(cs, lm, lucky) # <<>>
                THEN "You search the area and find something"
                ELSE "You search carefully but don't find anything"
          [] OTHER -> "You wait and observe"

\* _handle_player_talk up to line 227: does the talk reach the oracle?
talk_reaches_oracle(lm, npc_name) ==
    /\ npc_name \in AllCharacters
    /\ get_character_location(lm, Player) = get_character_location(lm, npc_name)

Resolvable(n) == n \in AllCharacters /\ RoleOf(n) # VICTIM

\* the next member of a group, from position i on, that line 360 keeps
NextIdx(members, i) ==
    LET hit == {j \in i .. Len(members) : Resolvable(members[j])}
    IN  IF hit = {} THEN Len(members) + 1
        ELSE CHOOSE j \in hit : \A h \in hit : j <= h

\* the last n entries of a list: s[-n:]
LastN(s, n) == IF Len(s) <= n THEN s ELSE SubSeq(s, Len(s) - n + 1, Len(s))

\* _resolve_single_npc, line 410: the part of the event list that is sent
RecentWindow == 5

NoRequest == [npc |-> "", location |-> "", others |-> <<>>, recent |-> <<>>]

\* one event list shared by all the groups of the turn
build_request_shared(lm, n, location_id, recent_events) ==
    [npc |-> n, location |-> location_id,
     others |-> SelectSeq(get_characters_at(lm, location_id),
                          LAMBDA c : c # n),
     recent |-> LET gs == task[1].groups
                    shared == IF Len(gs) = 0 THEN <<>> ELSE gs[1].events
                IN  LastN(recent_events
                          \o SelectSeq(shared,
                                LAMBDA e : \A i \in DOMAIN recent_events :
                                              recent_events[i] # e),
                          RecentWindow)]

\* _resolve_single_npc, lines 404-425: the decision request for n, built from
\* the location manager and the group's event list as they are at the call
build_request(lm, n, location_id, recent_events) ==
    [npc |-> n, location |-> location_id,
     others |-> SelectSeq(get_characters_at(lm, location_id),
                          LAMBDA c : c # n),
     recent |-> LastN(recent_events, RecentWindow)]

\* the request of the group's member at position i, if there is one
request_at(lm, members, i, location_id, recent_events) ==
    IF i > Len(members) THEN NoRequest
    ELSE build_request(lm, members[i], location_id, recent_events)

\* the groups and their first requests taken from the location manager as
\* it was before the player's action
StartGroups_stale(lm) ==
    LET gs == get_npcs_grouped_by_location(LM, Player)
    IN  [i \in DOMAIN gs |->
            LET first == NextIdx(gs[i].members, 1)
            IN  [loc |-> gs[i].loc, members |-> gs[i].members,
                 idx |-> first, events |-> <<>>, actions |-> <<>>,
                 req |-> request_at(LM, gs[i].members, first, gs[i].loc,
                                    <<>>)]]

\* the group tasks of _resolve_all_npc_actions, each at its first oracle call
\* (events is recent_events_at_location, actions the list the task returns)
StartGroups(lm) ==
    LET gs == get_npcs_grouped_by_location(lm, Player)
    IN  [i \in DOMAIN gs |->
            LET first == NextIdx(gs[i].members, 1)
            IN  [loc |-> gs[i].loc, members |-> gs[i].members,
                 idx |-> first, events |-> <<>>, actions |-> <<>>,
                 req |-> request_at(lm, gs[i].members, first, gs[i].loc,
                                    <<>>)]]

RECURSIVE FlattenActions(_, _)
\* _resolve_all_npc_actions, lines 337-344: the groups' lists, in group order
FlattenActions(gs, i) ==
    IF i > Len(gs) THEN <<>>
    ELSE gs[i].actions \o FlattenActions(gs, i + 1)

\* process_player_action, line 163: the text of the event of an action
description_of(a) ==
    IF a.dialogue # "" THEN a.dialogue
    ELSE a.npc_name \o " " \o a.action_type \o "s."

\* process_player_action, lines 160-171: one event per NPC action, located
\* and tagged by where the NPC is when the result is compiled
compile_events(lm, actions) ==
    [i \in DOMAIN actions |->
        LET npc_location == get_character_location(lm, actions[i].npc_name)
        IN  [description |-> description_of(actions[i]),
             location |-> IF npc_location = NONE THEN "" ELSE npc_location,
             involved |-> <<actions[i].npc_name>>,
             is_player_visible |->
                 npc_location = get_character_location(lm, Player)]]

\* the line of _generate_turn_summary for the events elsewhere
AmbientHint == "You hear faint sounds from elsewhere in the building"

\* _generate_turn_summary: the parts of the text
generate_turn_summary(action_type, events, found) ==
    LET visible_events == SelectSeq(events, LAMBDA e : e.is_player_visible)
        hidden_events == SelectSeq(events,
                             LAMBDA e : ~e.is_player_visible
                                        /\ e.description # "")
    IN  [your_action |-> action_type,
         observe |-> [i \in DOMAIN visible_events |->
                         visible_events[i].description],
         elsewhere |-> IF hidden_events # <<>> THEN AmbientHint ELSE "",
         new_clues |-> Len(found)]

\* the turn a task record is in: its PlayerAction and the result so far
TurnOf(tk) ==
    [turn_number |-> tk.turn_number, action_type |-> ActionOf(tk.op),
     target |-> tk.target, response |-> tk.response,
     clues_discovered |-> tk.clues_discovered, groups |-> tk.groups]

\* the TurnResult that process_player_action appends and returns, for the
\* turn of task record tk, compiled when the location manager is lm
TurnResult(tk, lm) ==
    LET acts == FlattenActions(tk.groups, 1)
        evs == compile_events(lm, acts)
    IN  [turn_number |-> tk.turn_number,
         player_action |-> [action_type |-> tk.action_type,
                            target |-> tk.target],
         player_action_response |-> tk.response,
         npc_actions |-> acts,
         events |-> evs,
         clues_discovered |-> tk.clues_discovered,
         narrative_summary |->
             generate_turn_summary(tk.action_type, evs, tk.clues_discovered)]

\* what turn_history keeps of a TurnResult in this model: the turn number and
\* the NPC actions
Recorded(r) == [turn_number |-> r.turn_number, npc_actions |-> r.npc_actions]

\* the record of the step that returns TurnResult r from a turn operation
TurnEv(op, called_in, r) ==
    [op |-> op, outcome |-> RETURNED, called_in |-> called_in, arg |-> "",
     error |-> "", ret |-> r]

\* main.py, lines 163-273: what a turn endpoint sends back for a TurnResult
turn_response(r) ==
    [response |-> r.player_action_response,
     turn |-> r.turn_number,
     clues_found |-> IF r.player_action.action_type = INVESTIGATE
                     THEN r.clues_discovered ELSE <<>>,
     events |-> [i \in DOMAIN r.events |->
                    [description |-> r.events[i].description,
                     visible |-> r.events[i].is_player_visible,
                     location |-> r.events[i].location]],
     narrative |-> r.narrative_summary]

GroupsDone(gs) == \A i \in DOMAIN gs : gs[i].idx > Len(gs[i].members)

\* process_player_action from line 156 on: fan out the groups, or, with no
\* group left to await, compile the result and return through _do_turn
resolve_npcs(t, tk, lm) ==
    LET gs == StartGroups(lm)
    IN  IF GroupsDone(gs)
        THEN LET r == TurnResult(TurnOf([tk EXCEPT !.groups = gs]), lm)
             IN  /\ tm_history' = Append(tm_history, Recorded(r))
                 /\ turn_history' = Append(turn_history, tk.turn_number)
                 /\ task' = [task EXCEPT ![t] = Idle]
                 /\ lastOp' = TurnEv(tk.op, tk.called_in, r)
        ELSE /\ task' = [task EXCEPT ![t] =
                    [tk EXCEPT !.pc = "npc_wait", !.groups = gs]]
             /\ lastOp' = Ev(tk.op, SUSPENDED, tk.called_in, "", "")
             /\ UNCHANGED <<tm_history, turn_history>>

\* the phase test of line 321 left out
do_turn_refused_no_phase == ~session \/ bind_count = 0

\* _do_turn, lines 319-323: the call is refused
do_turn_refused == ~session \/ bind_count = 0 \/ state # PLAYING

do_turn_reject(t, op) ==
    /\ task' = [task EXCEPT ![t] = Idle]
    /\ lastOp' = Ev(op, RAISED, CurState, "",
                    IF ~session \/ bind_count = 0
                    THEN "Game not initialized" ELSE "Cannot play")
    /\ UNCHANGED <<sessionVars, managerVars>>

\* the test of line 328 made strict
reached_max_turns_strict(turn, limit) == turn > limit

\* _do_turn, line 328
reached_max_turns(turn, limit) == turn >= limit

\* _do_turn, lines 325-332, and process_player_action up to its first await
do_turn_accept(t, op, target, lucky) ==
    LET turn == tm_turn + 1
        timeout == reached_max_turns(current_turn + 1, max_turns)
        mv == move_character(LM, Player, target)
        lm == IF ActionOf(op) = MOVE THEN mv.lm ELSE LM
        cs == IF ActionOf(op) = INVESTIGATE
              THEN handle_player_investigate(clues, LM, lucky, turn)
              ELSE clues
        tk == [Idle EXCEPT !.op = op, !.target = target,
                           !.called_in = CurState, !.turn_number = turn,
                           !.response = player_action_response(op, target,
                                                               lucky, LM, clues),
                           !.clues_discovered =
                               IF ActionOf(op) = INVESTIGATE
                               THEN investigate_found(clues, LM, lucky)
                               ELSE <<>>]
    IN  /\ current_turn' = current_turn + 1
        /\ state' = IF timeout THEN RESULTS ELSE state
        /\ result' = IF timeout THEN TIMEOUT ELSE result
        /\ tm_turn' = turn
        /\ clues' = cs
        /\ char_loc' = lm.char_loc
        /\ loc_keys' = lm.loc_keys
        /\ present' = lm.present
        /\ UNCHANGED <<session, player_role, npc_roles, scenario, max_turns,
                       bind_count, knowVars, conv_hist>>
        /\ IF ActionOf(op) = TALK /\ talk_reaches_oracle(LM, target)
           THEN /\ task' = [task EXCEPT ![t] =
                                [tk EXCEPT !.pc = "talk_wait"]]
                /\ lastOp' = Ev(op, SUSPENDED, CurState, "", "")
                /\ UNCHANGED <<tm_history, turn_history>>
           ELSE resolve_npcs(t, tk, lm)

do_turn(t, op, target, lucky) ==
    /\ task[t].pc = "idle"
    /\ UNCHANGED <<llm_client, settings_max_turns>>
    /\ IF do_turn_refused
       THEN do_turn_reject(t, op)
       ELSE do_turn_accept(t, op, target, lucky)

player_move(t, location_id) == do_turn(t, "player_move", location_id, {})

player_talk(t, npc_name) == do_turn(t, "player_talk", npc_name, {})

player_investigate(t, lucky) == do_turn(t, "player_investigate", "", lucky)

player_wait(t) == do_turn(t, "player_wait", "", {})

\* _handle_player_talk from line 252 on: the NPC's reply arrived or failed
talk_resume(t, ok) ==
    /\ task[t].pc = "talk_wait"
    /\ UNCHANGED <<llm_client, settings_max_turns>>
    /\ IF ~ok
       THEN \* the exception leaves process_player_action and _do_turn
            /\ task' = [task EXCEPT ![t] = Idle]
            /\ lastOp' = Ev(task[t].op, RAISED, task[t].called_in, "",
                            "oracle failed")
            /\ UNCHANGED <<sessionVars, managerVars>>
       ELSE LET n == task[t].target
                len == conv_hist[n] + 2
            IN  /\ conv_hist' = [conv_hist EXCEPT ![n] = len]
                /\ conv_had' = record_conversation(conv_had, n)
                /\ clues' = RevealFromTalk(clues, get_clues_from_npc(clues, n),
                                           len, tm_turn)
                /\ UNCHANGED <<session, state, result, player_role, npc_roles,
                               scenario, max_turns, current_turn, bind_count,
                               locVars, killer_name, tm_turn>>
                /\ resolve_npcs(t, [task[t] EXCEPT !.response = Dialogue],
                                LM)

---------------------------------------------------------------------------
(* TurnManager (turns.py): the agents *)

\* the fallback of lines 456-462 answering in the NPC's place
parse_reply_talkative(n, reply) ==
    IF ~reply.ok \/ reply.action \notin ActionType
    THEN [npc_name |-> n, action_type |-> TALK, target |-> "",
          dialogue |-> "d"]
    ELSE IF reply.action = MOVE /\ ~get_location(reply.target)
    THEN [npc_name |-> n, action_type |-> WAIT, target |-> "",
          dialogue |-> reply.dialogue]
    ELSE [npc_name |-> n, action_type |-> reply.action,
          target |-> reply.target, dialogue |-> reply.dialogue]

\* _resolve_single_npc, lines 427-462: the NPCAction a reply stands for
parse_reply(n, reply) ==
    IF ~reply.ok \/ reply.action \notin ActionType
    THEN [npc_name |-> n, action_type |-> WAIT, target |-> "", dialogue |-> ""]
    ELSE IF reply.action = MOVE /\ ~get_location(reply.target)
    THEN [npc_name |-> n, action_type |-> WAIT, target |-> "",
          dialogue |-> reply.dialogue]
    ELSE [npc_name |-> n, action_type |-> reply.action,
          target |-> reply.target, dialogue |-> reply.dialogue]

\* lines 369-376: the events the action adds to recent_events_at_location
events_of(action, turn_number) ==
    (IF action.dialogue # ""
     THEN <<[by |-> action.npc_name, kind |-> "said",
             what |-> action.dialogue, turn |-> turn_number]>>
     ELSE <<>>)
    \o (IF action.action_type = MOVE
        THEN <<[by |-> action.npc_name, kind |-> "left",
                what |-> action.target, turn |-> turn_number]>>
        ELSE <<>>)

\* the record of a reply step: who answered for which NPC with what
NpcEv(op, called_in, n, reply) ==
    [op |-> op, outcome |-> SUSPENDED, called_in |-> called_in, arg |-> "",
     error |-> IF reply.ok THEN "" ELSE "oracle failed (caught)",
     who |-> n, reply |-> reply]

\* one iteration of the loop of _resolve_location_group: the reply for the
\* group's current NPC arrived; the group goes on to its next oracle call
resolve_reply(t, g, reply) ==
    /\ task[t].pc = "npc_wait"
    /\ g \in DOMAIN task[t].groups
    /\ task[t].groups[g].idx <= Len(task[t].groups[g].members)
    /\ LET grp == task[t].groups[g]
           n == grp.members[grp.idx]
           action == parse_reply(n, reply)
           lm == IF action.action_type = MOVE
                 THEN move_character(LM, n, action.target).lm ELSE LM
           events == grp.events \o events_of(action, task[t].turn_number)
           next == NextIdx(grp.members, grp.idx + 1)
           gs == [task[t].groups EXCEPT
                     ![g].idx = next,
                     ![g].events = events,
                     ![g].actions = Append(grp.actions, action),
                     ![g].req = request_at(lm, grp.members, next, grp.loc,
                                           events)]
       IN  /\ char_loc' = lm.char_loc
           /\ loc_keys' = lm.loc_keys
           /\ present' = lm.present
           /\ task' = [task EXCEPT ![t].groups = gs,
                          ![t].pc = IF GroupsDone(gs) THEN "gathered"
                                    ELSE "npc_wait"]
           /\ lastOp' = NpcEv(task[t].op, task[t].called_in, n, reply)
    /\ UNCHANGED <<llm_client, settings_max_turns, sessionVars, clueVars,
                   tmVars>>

\* the loop recording what an NPC said in that NPC's knowledge state
npc_reply_recording(t, g, reply) ==
    /\ resolve_reply(t, g, reply)
    /\ killer_name' = killer_name
    /\ conv_had' = IF reply.ok /\ reply.dialogue # ""
                   THEN record_conversation(conv_had,
                            task[t].groups[g].members[task[t].groups[g].idx])
                   ELSE conv_had

\* the loop calls no method of the KnowledgeManager
npc_reply(t, g, reply) ==
    /\ resolve_reply(t, g, reply)
    /\ UNCHANGED knowVars

\* asyncio.gather returned: lines 159-177 and _do_turn lines 333-335
turn_finish(t) ==
    /\ task[t].pc = "gathered"
    /\ tm_history' = Append(tm_history,
                             Recorded(TurnResult(TurnOf(task[t]), LM)))
    /\ turn_history' = Append(turn_history, task[t].turn_number)
    /\ task' = [task EXCEPT ![t] = Idle]
    /\ lastOp' = TurnEv(task[t].op, task[t].called_in,
                        TurnResult(TurnOf(task[t]), LM))
    /\ UNCHANGED <<llm_client, settings_max_turns, session, state, result,
                   player_role, npc_roles, scenario, max_turns, current_turn,
                   bind_count, clueVars, locVars, knowVars, tm_turn, conv_hist>>

---------------------------------------------------------------------------
(* The engine driven by one caller that awaits every call before the next. *)
(* The inputs: arguments of the calls and answers of the oracle.           *)

PlayerRoleArgs == {"detective", "killer"}

\* where _init_locations puts the roster (default location or random)
Placements == {[n \in NpcSet |-> IF n = "B" THEN "L2" ELSE "L1"]}

Suspects == {"A", "X", Player}

MoveTargets == {"L2", "L9"}

TalkTargets == {"A", "Z"}

\* the clues for which a search may get lucky
LuckSets == SUBSET {k \in ClueIds : ClueDef(k).difficulty = "medium"
                                    /\ ClueDef(k).found_at \in LocIds}

Replies ==
    {r \in NpcReplies :
        \/ ~r.ok
        \/ r.action = WAIT /\ r.dialogue = ""}

\* the task of the one caller
Caller == CHOOSE t \in TaskIds : \A u \in TaskIds : t <= u

Next ==
    \/ \E r \in PlayerRoleArgs, b \in BOOLEAN : new_game(Caller, r, b)
    \/ \E c \in BOOLEAN, b \in BOOLEAN : new_game_resume(Caller, c, b)
    \/ generate_game_scenario(Caller)
    \/ \E ok \in BOOLEAN, k \in ScenarioKillers, w \in Placements :
          generate_resume(Caller, ok, k, w)
    \/ \E s \in Suspects : player_accuse(Caller, s)
    \/ \E ok \in BOOLEAN : accuse_resume(Caller, ok)
    \/ \E l \in MoveTargets : player_move(Caller, l)
    \/ \E n \in TalkTargets : player_talk(Caller, n)
    \/ \E lucky \in LuckSets : player_investigate(Caller, lucky)
    \/ player_wait(Caller)
    \/ \E ok \in BOOLEAN : talk_resume(Caller, ok)
    \/ \E g \in 1 .. Len(Npcs), reply \in Replies : npc_reply(Caller, g, reply)
    \/ turn_finish(Caller)

Spec == Init /\ [][Next]_vars

---------------------------------------------------------------------------
(* One turn of a freshly bound session, with every kind of agent reply and  *)
(* every interleaving of the group tasks.                                   *)

\* the whole roster in one room, or split over two rooms
TurnPlacements ==
    {[n \in NpcSet |-> "L1"],
     [n \in NpcSet |-> IF n \in {"A", "B"} THEN "L1" ELSE "L2"]}

TurnReplies ==
    {r \in NpcReplies :
        \/ ~r.ok
        \/ r.action = WAIT /\ r.dialogue = ""
        \/ r.action \in {TALK, INVESTIGATE, ACCUSE, "dance"}
           /\ r.dialogue = "d"
        \/ r.action = MOVE /\ r.target \in {"L1", "L2", "L3"}
           /\ r.dialogue = "d"}

\* the caller generates the scenario once
first_generate(t) == bind_count = 0 /\ generate_game_scenario(t)

\* the caller plays the first turn of the session
first_turn(t) ==
    /\ tm_turn = 0
    /\ \/ player_wait(t)
       \/ player_move(t, "L2")
       \/ player_talk(t, "A")
       \/ player_investigate(t, {})

NextTurn ==
    \/ new_game(Caller, "detective", TRUE)
    \/ new_game_resume(Caller, TRUE, TRUE)
    \/ first_generate(Caller)
    \/ \E w \in TurnPlacements : generate_resume(Caller, TRUE, "A", w)
    \/ first_turn(Caller)
    \/ \E ok \in BOOLEAN : talk_resume(Caller, ok)
    \/ \E g \in 1 .. Len(Npcs), reply \in TurnReplies :
          npc_reply(Caller, g, reply)
    \/ turn_finish(Caller)

SpecTurn == Init /\ [][NextTurn]_vars

\* every oracle call issued in the turn is answered: it returns or it fails
oracle_answers ==
    \/ \E ok \in BOOLEAN : talk_resume(Caller, ok)
    \/ \E g \in 1 .. Len(Npcs), reply \in TurnReplies :
          npc_reply(Caller, g, reply)

\* the first turn under an oracle that answers every call and an event loop
\* that resumes the turn once asyncio.gather is complete
SpecTurnFair ==
    SpecTurn /\ WF_vars(oracle_answers) /\ WF_vars(turn_finish(Caller))

---------------------------------------------------------------------------
(* Turn requests submitted concurrently on one session: the handlers of    *)
(* main.py run on one event loop and interleave at every await.            *)

\* the requests in flight at the same time
Requests == {t \in TaskIds : t <= 2}

AllIdle == \A t \in TaskIds : task[t].pc = "idle"

\* the session is created and bound once, before any turn request
conc_new_game(t) == ~session /\ AllIdle /\ new_game(t, "detective", TRUE)

conc_generate(t) == AllIdle /\ first_generate(t)

NextConc ==
    \/ conc_new_game(Caller)
    \/ new_game_resume(Caller, TRUE, TRUE)
    \/ conc_generate(Caller)
    \/ \E w \in TurnPlacements : generate_resume(Caller, TRUE, "A", w)
    \/ \E t \in Requests : player_wait(t)
    \/ \E t \in Requests : player_talk(t, "A")
    \/ \E t \in Requests, ok \in BOOLEAN : talk_resume(t, ok)
    \/ \E t \in Requests, g \in 1 .. Len(Npcs), reply \in Replies :
          npc_reply(t, g, reply)
    \/ \E t \in Requests : turn_finish(t)

SpecConc == Init /\ [][NextConc]_vars

---------------------------------------------------------------------------
(* The turns of one bound session played to the turn limit: every player   *)
(* action on every kind of target, with agents that talk to each other.    *)

\* "A" and "B" share the first room with the player, "C" and "D" the second
PlayPlacement == [n \in NpcSet |-> IF n \in {"A", "B"} THEN "L1" ELSE "L2"]

\* an NPC of the room, an NPC elsewhere, an unknown name, the player's own
\* name and the victim
PlayTalkTargets == {"A", "C", "Z", Player, Victim}

PlayMoveTargets == {"L1", "L2"}

\* every agent says something to the others in its room
PlayReplies == {r \in NpcReplies : r.action = TALK /\ r.dialogue = "d"}

NextPlay ==
    \/ conc_new_game(Caller)
    \/ new_game_resume(Caller, TRUE, TRUE)
    \/ first_generate(Caller)
    \/ generate_resume(Caller, TRUE, "A", PlayPlacement)
    \/ \E l \in PlayMoveTargets : player_move(Caller, l)
    \/ \E n \in PlayTalkTargets : player_talk(Caller, n)
    \/ \E lucky \in LuckSets : player_investigate(Caller, lucky)
    \/ player_wait(Caller)
    \/ \E ok \in BOOLEAN : talk_resume(Caller, ok)
    \/ \E g \in 1 .. Len(Npcs), reply \in PlayReplies :
          npc_reply(Caller, g, reply)
    \/ turn_finish(Caller)

SpecPlay == Init /\ [][NextPlay]_vars

---------------------------------------------------------------------------
(* The LocationManager on its own: any character is placed or moved to any  *)
(* target, starting from the graph just loaded and nobody placed.           *)

LocCharacters == {"A", "B"}

lm_place_character(c, l) ==
    LET lm == place_character(LM, c, l)
    IN  /\ char_loc' = lm.char_loc
        /\ loc_keys' = lm.loc_keys
        /\ present' = lm.present
        /\ lastOp' = ManagerCall("place_character", c, l, 0, TRUE)
        /\ UNCHANGED <<llm_client, settings_max_turns, sessionVars, clueVars,
                       knowVars, tmVars, task>>

lm_move_character(c, target) ==
    LET mv == move_character(LM, c, target)
    IN  /\ char_loc' = mv.lm.char_loc
        /\ loc_keys' = mv.lm.loc_keys
        /\ present' = mv.lm.present
        /\ lastOp' = ManagerCall("move_character", c, target, 0, mv.ok)
        /\ UNCHANGED <<llm_client, settings_max_turns, sessionVars, clueVars,
                       knowVars, tmVars, task>>

NextLoc ==
    \/ \E c \in LocCharacters, l \in Targets : lm_place_character(c, l)
    \/ \E c \in LocCharacters, x \in Targets : lm_move_character(c, x)

SpecLoc == Init /\ [][NextLoc]_vars

---------------------------------------------------------------------------
(* The ClueManager on its own: any clue id is reported by anybody in any    *)
(* turn, starting from the ledger just loaded.                              *)

ClueArgs == {"c1", "c2", "c9"}

Discoverers == {Player, "A"}

ClueTurns == 1 .. MaxTurnsCfg

cm_discover_clue(k, by, turn) ==
    LET d == discover_clue(clues, k, by, turn)
    IN  /\ clues' = d.cs
        /\ lastOp' = ManagerCall("discover_clue", by, k, turn, d.ret)
        /\ UNCHANGED <<llm_client, settings_max_turns, sessionVars, locVars,
                       knowVars, tmVars, task>>

NextClue ==
    \E k \in ClueArgs, by \in Discoverers, turn \in ClueTurns :
        cm_discover_clue(k, by, turn)

SpecClue == Init /\ [][NextClue]_vars

---------------------------------------------------------------------------
(* Properties *)

\* the step is a call of op by the caller (every call starts from idle and
\* records its method in lastOp)
Calls(op) == task[Caller].pc = "idle" /\ lastOp'.op = op

\* the step replaces the session by a fresh one
NewSessionStep == lastOp'.op = "new_game" /\ lastOp'.outcome = RETURNED

\* C1: a player_move, player_talk, player_investigate or player_wait call made
\* while the session is not PLAYING raises, and leaves the turn counter, the
\* state, the result, the turn history, the location graph, the clue ledger
\* and the knowledge partition as they were.
C1_RefusedTurnChangesNothing ==
    [][\A op \in TurnOps :
          (Calls(op) /\ session /\ state # PLAYING)
          => /\ lastOp'.outcome = RAISED
             /\ UNCHANGED <<current_turn, state, result, turn_history,
                            locVars, clueVars, knowVars, tmVars, session,
                            scenario, npc_roles, player_role>>]_vars

\* a turn call was refused in RESULTS, on a session with all its managers
C1_Witness ==
    /\ lastOp.op \in TurnOps
    /\ lastOp.outcome = RAISED
    /\ lastOp.called_in = RESULTS
    /\ lastOp.error = "Cannot play"
    /\ bind_count >= 1

\* C2: on a session bound once with max_turns >= 1, every accepted turn call
\* adds exactly 1 to current_turn, and the session goes to RESULTS with
\* TIMEOUT in exactly the call that makes current_turn equal to max_turns.
C2_TurnCounterAndTimeout ==
    [][\A op \in TurnOps :
          (Calls(op) /\ session /\ state = PLAYING /\ bind_count = 1
           /\ max_turns >= 1)
          => /\ current_turn' = current_turn + 1
             /\ (state' = RESULTS /\ result' = TIMEOUT)
                    <=> (current_turn' = max_turns)
             /\ current_turn' < max_turns => (state' = PLAYING /\ result' = NONE)
             /\ lastOp'.outcome # RAISED]_vars

\* the turn that made current_turn reach max_turns = MaxTurnsCfg timed out
C2_Witness ==
    /\ lastOp.op \in TurnOps
    /\ lastOp.called_in = PLAYING
    /\ bind_count = 1
    /\ max_turns = MaxTurnsCfg
    /\ current_turn = max_turns
    /\ state = RESULTS
    /\ result = TIMEOUT

\* C3: the result player_accuse sets depends only on the player's role, the
\* accused name and the scenario's killer: a DETECTIVE naming the killer gives
\* DETECTIVE_WINS, a DETECTIVE naming anyone else WRONG_ACCUSATION, and a
\* KILLER gives KILLER_WINS whatever the name.
C3_AccusationMatrix ==
    [][(Calls("player_accuse") /\ lastOp'.outcome = SUSPENDED)
       => /\ (player_role = DETECTIVE /\ lastOp'.arg = scenario.killer)
                => result' = DETECTIVE_WINS
          /\ (player_role = DETECTIVE /\ lastOp'.arg # scenario.killer)
                => result' = WRONG_ACCUSATION
          /\ player_role = KILLER => result' = KILLER_WINS
          /\ player_role \in {DETECTIVE, KILLER}]_vars

\* a detective accused somebody who is not the killer
C3_Witness ==
    /\ lastOp.op = "player_accuse"
    /\ lastOp.outcome = SUSPENDED
    /\ player_role = DETECTIVE
    /\ lastOp.arg # scenario.killer
    /\ result = WRONG_ACCUSATION

\* C4: a player_accuse call made in PLAYING never raises, and from its first
\* step to its return the session is in RESULTS with a result, whatever name
\* is accused and whether the ending oracle answers or fails.
C4_AccuseEndsInResults ==
    (lastOp.op = "player_accuse" /\ lastOp.called_in = PLAYING)
    => /\ lastOp.outcome # RAISED
       /\ state = RESULTS
       /\ result \in GameResult

\* an accusation made in PLAYING returned although the ending oracle failed
C4_Witness ==
    /\ lastOp.op = "player_accuse"
    /\ lastOp.called_in = PLAYING
    /\ lastOp.outcome = RETURNED
    /\ lastOp.error = "oracle failed (caught)"
    /\ state = RESULTS
    /\ result \in GameResult

\* C5: a player_accuse call made on a session in SETUP, SCENARIO_GEN or
\* RESULTS is rejected, and changes neither the state nor the result.
C5_AccuseRefusedOutsidePlaying ==
    [][(Calls("player_accuse") /\ session
        /\ state \in {SETUP, SCENARIO_GEN, RESULTS})
       => /\ lastOp'.outcome = RAISED
          /\ state' = state
          /\ result' = result]_vars

\* C6: once the session is in RESULTS with a result, no later operation on
\* that session changes the result or leaves RESULTS.
C6_ResultsIsFinal ==
    [][(session /\ state = RESULTS /\ result \in GameResult /\ ~NewSessionStep)
       => (state' = RESULTS /\ result' = result)]_vars

\* the edges of the session's state machine
Edges ==
    {<<SETUP, SCENARIO_GEN>>, <<SCENARIO_GEN, PLAYING>>, <<PLAYING, PLAYING>>,
     <<PLAYING, RESULTS>>}

\* C7: every change of a session's state follows one of the edges SETUP ->
\* SCENARIO_GEN, SCENARIO_GEN -> PLAYING, PLAYING -> PLAYING, PLAYING ->
\* RESULTS; SCENARIO_GEN is entered only from SETUP.
C7_StateMachineEdges ==
    [][(session /\ ~NewSessionStep /\ state' # state)
       => <<state, state'>> \in Edges]_vars

\* the four managers of the session exist
managers_exist == bind_count >= 1

\* C8: a session in PLAYING has its scenario bound and its four managers; a
\* generation that failed has left the session in SCENARIO_GEN.
C8_PlayingIsBound ==
    /\ (session /\ state = PLAYING) => (scenario.bound /\ managers_exist)
    /\ (lastOp.op = "generate_game_scenario"
        /\ lastOp.error = "generation failed")
       => (state = SCENARIO_GEN /\ lastOp.outcome = RAISED)

\* the first generation of a session failed
C8_Witness ==
    /\ lastOp.op = "generate_game_scenario"
    /\ lastOp.error = "generation failed"
    /\ lastOp.called_in = SETUP
    /\ state = SCENARIO_GEN
    /\ ~scenario.bound

\* C9: a scenario is bound to a session at most once: a generation finishing
\* on a session that is already bound replaces no manager, resets no clue and
\* no position, and assigns no role.
C9_BindOnce ==
    [][(task[Caller].pc = "gen_wait" /\ scenario.bound)
       => UNCHANGED <<bind_count, scenario, npc_roles, clueVars, locVars,
                      knowVars, tmVars>>]_vars

\* the characters that take part: the player and the roster
Cast == {Player} \cup NpcSet

\* C10: after one bind whose scenario names a roster NPC as killer, exactly one
\* of the player and the NPCs is KILLER and exactly one is DETECTIVE, the KILLER
\* is the player iff the player was created as KILLER, and both
\* scenario.murder.killer and KnowledgeManager.is_killer name the KILLER.
C10_OneKillerOneDetective ==
    (bind_count = 1 /\ (player_role = DETECTIVE => scenario.killer \in NpcSet))
    => /\ Cardinality({c \in Cast : RoleOf(c) = KILLER}) = 1
       /\ Cardinality({c \in Cast : RoleOf(c) = DETECTIVE}) = 1
       /\ \A c \in Cast :
             RoleOf(c) = KILLER
             => /\ (c = Player) <=> (player_role = KILLER)
                /\ scenario.killer = c
                /\ is_killer(c)
                /\ \A n \in Names : is_killer(n) => n = c

\* one bind on a killer-player's session gave the first roster NPC the
\* DETECTIVE role and named the player as the killer
C10_Witness ==
    /\ bind_count = 1
    /\ player_role = KILLER
    /\ npc_roles[Npcs[1]] = DETECTIVE
    /\ scenario.killer = Player
    /\ is_killer(Player)

\* the occupant set of a target, empty for a target that is no location
occupantsOf(x) == {c \in Names : InSeq(get_characters_at(LM, x), c)}

\* C11: for every character, placed or not, and every target X: after
\* move_character(C, X) returned success, X's occupant set contains C and no
\* other location's occupant set does.
C11_MoveSuccessPutsCharacterAtTarget ==
    (lastOp.op = "move_character" /\ lastOp.ret)
    => /\ lastOp.who \in occupantsOf(lastOp.arg)
       /\ \A l \in LocIds \ {lastOp.arg} : lastOp.who \notin occupantsOf(l)

\* C12: for every placed character C and every target X that is not in the
\* adjacency list of C's current location (an edge X -> current alone does
\* not count), move_character(C, X) returns failure and changes neither the
\* character -> location map nor any occupant list.
C12_NonAdjacentMoveFails ==
    [][\A c \in Names, x \in Targets :
          (/\ lastOp'.op = "move_character"
           /\ lastOp'.who = c
           /\ lastOp'.arg = x
           /\ char_loc[c] # NONE
           /\ ~InSeq(connected_to(char_loc[c]), x))
          => (~lastOp'.ret /\ UNCHANGED locVars)]_vars

\* a character at "L1" was refused the move to "L3", although "L3" lists "L1"
C12_Witness ==
    /\ lastOp.op = "move_character"
    /\ lastOp.arg = "L3"
    /\ ~lastOp.ret
    /\ char_loc[lastOp.who] = "L1"
    /\ InSeq(connected_to("L3"), "L1")
    /\ InSeq(present["L1"], lastOp.who)

\* C13: for every clue id K, the first discover_clue on an undiscovered known
\* clue returns the clue and sets discovered, discoverer and turn; every later
\* discover_clue on K, with any arguments, returns nothing and leaves the
\* three fields as they were; on an unknown id it returns nothing and changes
\* no clue.
C13_DiscoverOnce ==
    [][lastOp'.op = "discover_clue"
       => LET k == lastOp'.arg
          IN  IF k \notin ClueIds
              THEN ~lastOp'.ret /\ clues' = clues
              ELSE IF clues[k].discovered
              THEN ~lastOp'.ret /\ clues' = clues
              ELSE /\ lastOp'.ret
                   /\ clues'[k] = [discovered |-> TRUE,
                                   discovered_by |-> lastOp'.who,
                                   discovered_at_turn |-> lastOp'.turn]
                   /\ \A j \in ClueIds \ {k} : clues'[j] = clues[j]]_vars

\* a later discover_clue, by somebody else in another turn, returned nothing
\* and the clue kept its first discoverer and turn
C13_Witness ==
    /\ lastOp.op = "discover_clue"
    /\ lastOp.arg \in ClueIds
    /\ ~lastOp.ret
    /\ clues[lastOp.arg].discovered
    /\ clues[lastOp.arg].discovered_by # lastOp.who
    /\ clues[lastOp.arg].discovered_at_turn # lastOp.turn

\* C14: over turn operations and accusations after the bind, a clue once
\* discovered stays discovered, with the same discoverer and the same turn.
C14_DiscoveredIsForever ==
    [][lastOp'.op \in TurnOps \cup {"player_accuse"}
       => \A k \in ClueIds : clues[k].discovered => clues'[k] = clues[k]]_vars

\* the player searched a location again in a later turn: the clue found
\* there in turn 1 kept its record
C14_Witness ==
    /\ lastOp.op = "player_investigate"
    /\ lastOp.outcome = RETURNED
    /\ tm_turn >= 2
    /\ \E k \in ClueIds : /\ clues[k].discovered
                          /\ clues[k].discovered_at_turn = 1
                          /\ clues[k].discovered_by = Player
                          /\ ClueDef(k).found_at = char_loc[Player]

\* the group tasks of the turn in flight
Groups == task[Caller].groups

\* the groups whose current NPC is waiting for the oracle
Pending == {g \in DOMAIN Groups : Groups[g].idx <= Len(Groups[g].members)}

\* C15: within one location group of one turn, the decision request of the
\* i-th resolved agent contains every dialogue event and every departure
\* event produced in that turn by the agents resolved before it in the group,
\* for any number of earlier agents and events.
C15_RequestHasAllEarlierEvents ==
    \A g \in Pending :
        \A i \in DOMAIN Groups[g].events :
            InSeq(Groups[g].req.recent, Groups[g].events[i])

\* C16: under every interleaving of the group tasks of a turn, the recent-event
\* log in an agent's request holds only events produced in that turn by
\* agents of the agent's own group, also when an agent of another group has
\* moved into the location during the turn.
C16_RequestHasOwnGroupEventsOnly ==
    \A g \in Pending :
        \A i \in DOMAIN Groups[g].req.recent :
            LET e == Groups[g].req.recent[i]
            IN  /\ InSeq(Groups[g].members, e.by)
                /\ e.turn = task[Caller].turn_number
                /\ \A h \in DOMAIN Groups \ {g} : ~InSeq(Groups[h].events, e)

\* an agent of the first group spoke and walked into the second group's room
\* before the request of the second group's next agent was built: the request
\* lists the newcomer as present and holds the own group's event only
C16_Witness ==
    /\ task[Caller].pc = "npc_wait"
    /\ Len(Groups) = 2
    /\ 2 \in Pending
    /\ \E n \in NpcSet :
          /\ InSeq(Groups[1].members, n)
          /\ InSeq(Groups[2].req.others, n)
          /\ \E i \in DOMAIN Groups[1].events : Groups[1].events[i].by = n
    /\ Len(Groups[2].req.recent) = 1

\* the action an oracle reply stands for: WAIT with nothing else when the call
\* or the parsing failed
FollowsReply(a, n, r) ==
    /\ a.npc_name = n
    /\ IF ~r.ok \/ r.action \notin ActionType
       THEN a.action_type = WAIT /\ a.dialogue = "" /\ a.target = ""
       ELSE /\ a.dialogue = r.dialogue
            /\ \/ a.action_type = r.action /\ a.target = r.target
               \/ /\ r.action = MOVE /\ r.target \notin LocIds
                  /\ a.action_type = WAIT /\ a.target = ""

\* C17: when the oracle call or the parsing of its reply fails for one NPC,
\* that NPC's action is WAIT with empty dialogue and target; every other NPC,
\* of the same and of every other group, is resolved with the action its own
\* reply stands for; the turn completes with one action per NPC.
C17_FailureIsOneNpcsWait ==
    [][/\ (task[Caller].pc = "npc_wait" /\ lastOp'.op \in TurnOps
           /\ lastOp'.outcome = SUSPENDED)
          => \E g \in Pending :
                LET grp == Groups[g]
                    n == grp.members[grp.idx]
                    gs == task'[Caller].groups
                IN  /\ lastOp'.who = n
                    /\ Len(gs[g].actions) = Len(grp.actions) + 1
                    /\ SubSeq(gs[g].actions, 1, Len(grp.actions)) = grp.actions
                    /\ FollowsReply(gs[g].actions[Len(gs[g].actions)], n,
                                    lastOp'.reply)
                    /\ gs[g].idx = grp.idx + 1
                    /\ \A h \in DOMAIN Groups \ {g} :
                          /\ gs[h].actions = Groups[h].actions
                          /\ gs[h].idx = Groups[h].idx
                    /\ task'[Caller].pc \in {"npc_wait", "gathered"}
       /\ (task[Caller].pc = "gathered" /\ task'[Caller].pc = "idle")
          => /\ lastOp'.outcome = RETURNED
             /\ LET acts == tm_history'[Len(tm_history')].npc_actions
                IN  /\ Len(acts) = Cardinality(NpcSet)
                    /\ {acts[i].npc_name : i \in DOMAIN acts} = NpcSet
                    /\ acts = FlattenActions(Groups, 1)]_vars

\* the oracle failed for the last NPC to answer: its action is WAIT, while an
\* NPC of its own group talks and an NPC of the other group moves
C17_Witness ==
    /\ task[Caller].pc = "gathered"
    /\ lastOp.error = "oracle failed (caught)"
    /\ Len(Groups) = 2
    /\ \E g \in DOMAIN Groups :
          /\ \E i \in DOMAIN Groups[g].actions :
                /\ Groups[g].actions[i].npc_name = lastOp.who
                /\ Groups[g].actions[i].action_type = WAIT
                /\ Groups[g].actions[i].dialogue = ""
          /\ \E i \in DOMAIN Groups[g].actions :
                Groups[g].actions[i].action_type = TALK
          /\ \E h \in DOMAIN Groups \ {g} :
                \E i \in DOMAIN Groups[h].actions :
                    Groups[h].actions[i].action_type = MOVE

\* C18: an oracle failure in any part of a turn, the dialogue of a player
\* TALK included, never makes the turn fail: a turn operation accepted in
\* PLAYING does not raise.
C18_OracleFailureNeverFailsTurn ==
    (lastOp.op \in TurnOps /\ lastOp.called_in = PLAYING)
    => lastOp.outcome # RAISED

\* C19: every effect of the player's action (relocation, conversation
\* history and knowledge, clue discovery) is complete before the first agent
\* request of the turn is issued, and the grouping and the requests are
\* computed from the location graph after the player's action.
C19_PlayerActionBeforeAgents ==
    [][/\ (task[Caller].pc \in {"idle", "talk_wait"}
           /\ task'[Caller].pc = "npc_wait")
          => LET gs == task'[Caller].groups
                 lm == [char_loc |-> char_loc', loc_keys |-> loc_keys',
                        present |-> present']
                 by_loc == get_npcs_grouped_by_location(lm, Player)
             IN  /\ Len(gs) = Len(by_loc)
                 /\ \A g \in DOMAIN gs :
                       /\ gs[g].loc = by_loc[g].loc
                       /\ gs[g].members = by_loc[g].members
                       /\ gs[g].req.others
                            = SelectSeq(present'[gs[g].loc],
                                        LAMBDA c : c # gs[g].req.npc)
       /\ task[Caller].pc \in {"npc_wait", "gathered"}
          => /\ char_loc'[Player] = char_loc[Player]
             /\ UNCHANGED <<clues, conv_hist, conv_had>>]_vars

\* the player walked to "L2": the first request of the group there names the
\* player among the others present
C19_Witness ==
    /\ task[Caller].pc = "npc_wait"
    /\ task[Caller].op = "player_move"
    /\ char_loc[Player] = "L2"
    /\ \E g \in Pending :
          /\ Groups[g].loc = "L2"
          /\ Groups[g].actions = <<>>
          /\ InSeq(Groups[g].req.others, Player)

\* the positions of a task inside a turn
TurnPcs == {"talk_wait", "npc_wait", "gathered"}

\* C20: for every interleaving of concurrently submitted turn requests on one
\* session, at most one turn is processed at a time: a second turn does not
\* start, nor increment the turn counter, while an earlier one has not
\* returned.
C20_OneTurnAtATime ==
    Cardinality({t \in TaskIds : task[t].pc \in TurnPcs}) <= 1

\* C21: location groups have no ordering dependency on each other: the
\* decision request of every agent, its co-present names and its recent
\* events, is the same under every interleaving of the other groups' tasks.
\* A request built with no step of another group before it names, besides
\* the agent's own group, only the player; so the requests are the same
\* under every interleaving iff no request names a member of another group.
C21_RequestIndependentOfOtherGroups ==
    \A g \in Pending :
        \A i \in DOMAIN Groups[g].req.others :
            \/ Groups[g].req.others[i] = Player
            \/ InSeq(Groups[g].members, Groups[g].req.others[i])

\* a turn operation returned its TurnResult
TurnReturned == lastOp.op \in TurnOps /\ lastOp.outcome = RETURNED

\* the characters the location manager has placed
Placed == {c \in AllCharacters : char_loc[c] # NONE}

\* C22: in every completed turn the actors of TurnResult.npc_actions are
\* exactly the placed non-player, non-victim characters, each exactly once,
\* also when an NPC moved during the turn into the location of another group;
\* the player and the victim are never actors.
C22_EveryNpcActsOnce ==
    TurnReturned
    => LET acts == lastOp.ret.npc_actions
       IN  /\ \A i, j \in DOMAIN acts :
                 acts[i].npc_name = acts[j].npc_name => i = j
           /\ {acts[i].npc_name : i \in DOMAIN acts}
                = {c \in Placed : c # Player /\ RoleOf(c) # VICTIM}
           /\ \A i \in DOMAIN acts : acts[i].npc_name \notin {Player, Victim}

\* an NPC of the first room walked into the second room, whose NPCs acted
\* too: the result of the turn lists the walker once and the others once
C22_Witness ==
    /\ TurnReturned
    /\ LET acts == lastOp.ret.npc_actions
       IN  /\ Len(acts) = Cardinality(NpcSet)
           /\ \E i \in DOMAIN acts :
                 /\ acts[i].action_type = MOVE
                 /\ acts[i].target = "L2"
                 /\ char_loc[acts[i].npc_name] = "L2"
                 /\ \E j \in DOMAIN acts :
                       /\ j > i
                       /\ acts[j].action_type = TALK
                       /\ char_loc[acts[j].npc_name] = "L2"

\* C23: an event of a TurnResult is tagged visible to the player iff it
\* occurred at the player's location: the acting NPC was at the player's
\* location when it produced the action, a departure from it included.  An
\* NPC acts in the room of its group, and the result compiled from a turn
\* whose groups are done is the one the turn returns.
C23_VisibleIffAtPlayersLocation ==
    task[Caller].pc = "gathered"
    => \A g \in DOMAIN Groups :
          LET evs == compile_events(LM, Groups[g].actions)
          IN  \A i \in DOMAIN evs :
                 evs[i].is_player_visible
                 <=> Groups[g].loc = get_character_location(LM, Player)

\* C24: what a turn operation returns to the player holds the description of
\* an event only when the event is tagged visible, in the event list and in
\* the narrative summary; for the others there is only the ambient hint.
C24_HiddenEventsAreNotDescribed ==
    TurnReturned
    => LET r == lastOp.ret
           resp == turn_response(r)
           shown == SelectSeq(r.events, LAMBDA e : e.is_player_visible)
       IN  /\ \A i \in DOMAIN r.events :
                 (~r.events[i].is_player_visible
                  /\ r.npc_actions[i].dialogue # "")
                 => resp.events[i].description # r.npc_actions[i].dialogue
           /\ resp.narrative.observe
                = [i \in DOMAIN shown |-> shown[i].description]
           /\ resp.narrative.elsewhere \in {"", AmbientHint}

\* C30: every NPCAction recorded in a TurnResult has a type in MOVE, TALK,
\* INVESTIGATE, WAIT and every recorded MOVE targets a defined location: a
\* reply that is unparsable, names another action (ACCUSE included) or moves
\* to an unknown location is recorded as WAIT with empty target.
C30_RecordedActionsAreNpcActions ==
    TurnReturned
    => \A i \in DOMAIN lastOp.ret.npc_actions :
          LET a == lastOp.ret.npc_actions[i]
          IN  /\ a.action_type \in {MOVE, TALK, INVESTIGATE, WAIT}
              /\ a.action_type = MOVE => a.target \in LocIds

\* a player TALK got its reply: the dialogue exchange with the target is done
TalkCompleted ==
    /\ task[Caller].pc = "talk_wait"
    /\ lastOp'.op = "player_talk"
    /\ lastOp'.outcome # RAISED

\* C25: get_player_visible_info lists the alibi of NPC n iff the player has
\* completed at least one TALK with n that reached the dialogue exchange:
\* nothing is listed when the managers are bound, every step of a turn adds
\* the target of the TALK it completes and nothing else; a TALK rejected
\* because n is elsewhere and a talk between NPCs add nothing.
C25_AlibiVisibleIffTalkedTo ==
    [][/\ bind_count' # bind_count => known_alibis(conv_had') = {}
       /\ lastOp'.op \in TurnOps
          => known_alibis(conv_had')
               = known_alibis(conv_had)
                   \cup (IF TalkCompleted
                         THEN {task[Caller].target} \cap NpcSet ELSE {})]_vars

\* the player talked to "A" in turn 1 and was told in turn 2 that "C" is not
\* in the room, while "C" talked to the NPC next to it: only "A"'s alibi is
\* listed
C25_Witness ==
    /\ TurnReturned
    /\ lastOp.ret.turn_number = 2
    /\ lastOp.ret.player_action = [action_type |-> TALK, target |-> "C"]
    /\ lastOp.ret.player_action_response = "isn't here"
    /\ \E i \in DOMAIN lastOp.ret.npc_actions :
          /\ lastOp.ret.npc_actions[i].npc_name = "C"
          /\ lastOp.ret.npc_actions[i].action_type = TALK
    /\ known_alibis(conv_had) = {"A"}

\* the step is an accepted INVESTIGATE of the player
InvestigateStep ==
    /\ task[Caller].pc = "idle"
    /\ lastOp'.op = "player_investigate"
    /\ lastOp'.outcome # RAISED

\* what the INVESTIGATE of this step reports as found
ReportedFound ==
    IF lastOp'.outcome = RETURNED THEN lastOp'.ret.clues_discovered
    ELSE task'[Caller].clues_discovered

\* C26: for every EASY clue bound to a location L, an INVESTIGATE of the
\* player at L finds it if it is undiscovered (so the first one does), a
\* later INVESTIGATE at L neither reports it again nor changes its state, and
\* an INVESTIGATE at another location never discovers it.
C26_EasyClueFoundByFirstSearch ==
    [][InvestigateStep
       => \A k \in ClueIds :
             (ClueDef(k).difficulty = "easy" /\ ClueDef(k).found_at \in LocIds)
             => IF char_loc[Player] # ClueDef(k).found_at
                THEN clues'[k] = clues[k] /\ ~InSeq(ReportedFound, k)
                ELSE IF clues[k].discovered
                THEN clues'[k] = clues[k] /\ ~InSeq(ReportedFound, k)
                ELSE /\ clues'[k] = [discovered |-> TRUE,
                                     discovered_by |-> Player,
                                     discovered_at_turn |-> tm_turn']
                     /\ InSeq(ReportedFound, k)]_vars

\* the second search of the first room in a row: the easy clue found in turn 1
\* is not reported in turn 2
C26_Witness ==
    /\ TurnReturned
    /\ lastOp.op = "player_investigate"
    /\ lastOp.ret.turn_number = 2
    /\ lastOp.ret.clues_discovered = <<>>
    /\ char_loc[Player] = "L1"
    /\ clues["c1"] = [discovered |-> TRUE, discovered_by |-> Player,
                      discovered_at_turn |-> 1]

\* C27: a MEDIUM clue bound to NPC n is undiscovered after the player's first
\* completed TALK with n and discovered by the end of the first completed
\* TALK at which the history with n holds at least 4 entries, the second one,
\* each completed TALK adding exactly 2 entries.
C27_MediumClueToldAtSecondTalk ==
    [][/\ TalkCompleted
          => conv_hist' = [conv_hist EXCEPT ![task[Caller].target] = @ + 2]
       /\ ~TalkCompleted => conv_hist' = conv_hist \/ bind_count' # bind_count
                            \/ lastOp'.op = "new_game"
       /\ \A k \in ClueIds :
             (ClueDef(k).difficulty = "medium" /\ ClueDef(k).found_at \in NpcSet)
             => (clues'[k].discovered
                 <=> conv_hist'[ClueDef(k).found_at] >= 4)]_vars

\* the second TALK with "A" is done: its clue was found in that turn
C27_Witness ==
    /\ lastOp.op = "player_talk"
    /\ lastOp.outcome # RAISED
    /\ conv_hist["A"] = 4
    /\ tm_turn = 2
    /\ clues["c2"] = [discovered |-> TRUE, discovered_by |-> Player,
                      discovered_at_turn |-> 2]

C29_BadTalkTargetIssuesNoOracleCall ==
    task[Caller].pc = "talk_wait"
    => /\ task[Caller].target \in NpcSet
       /\ char_loc[task[Caller].target] = char_loc[Player]

---------------------------------------------------------------------------
(* Properties of the turn counters, the frames of the turn phases and the   *)
(* recorded results.                                                        *)

\* C31: in a session bound once, the turn numbers of the TurnResults in the
\* session's turn history start at 1 and are strictly increasing, for every
\* sequence of turn operations, turns whose player action fails included.
C31_TurnNumbersStartAtOneAndIncrease ==
    bind_count <= 1
    => /\ turn_history # <<>> => turn_history[1] = 1
       /\ \A i \in 1 .. Len(turn_history) - 1 :
             turn_history[i] < turn_history[i + 1]

\* the number of occurrences of x in the list s
Occurrences(s, x) == Cardinality({i \in DOMAIN s : s[i] = x})

\* the members get_npcs_grouped_by_location lists for location l
GroupedAt(l) ==
    LET gs == get_npcs_grouped_by_location(LM, "")
    IN  {c \in Names : \E i \in DOMAIN gs :
                          gs[i].loc = l /\ InSeq(gs[i].members, c)}

\* C34: in every reachable state of the location graph, for every sequence of
\* place_character and move_character calls, targets that name undefined
\* location ids included, a character is mapped to location l iff it is in
\* the occupant list of l, it occurs in at most one occupant list and at most
\* once in it, so that get_npcs_grouped_by_location and get_characters_at
\* agree.
C34_MapAgreesWithOccupantLists ==
    /\ \A c \in Names, l \in LocIds :
          char_loc[c] = l <=> InSeq(present[l], c)
    /\ \A c \in Names :
          /\ Cardinality({l \in LocIds : InSeq(present[l], c)}) <= 1
          /\ \A l \in LocIds : Occurrences(present[l], c) <= 1
    /\ \A l \in LocIds :
          GroupedAt(l) = {c \in Names : InSeq(get_characters_at(LM, l), c)}

\* the last step was the resolution of an agent's reply
AgentResolved == lastOp.outcome = SUSPENDED /\ "who" \in DOMAIN lastOp

\* C35: whenever a MOVE with target T is recorded for an NPC and a departure
\* event for it was shown to the later agents of its group, the NPC is at T
\* once its resolution step has finished; an NPC whose relocation was refused
\* because T is not adjacent is not recorded as having moved.
C35_RecordedMoveRelocated ==
    AgentResolved
    => \A g \in DOMAIN Groups : \A i \in DOMAIN Groups[g].actions :
          LET a == Groups[g].actions[i]
              departure == [by |-> a.npc_name, kind |-> "left",
                            what |-> a.target, turn |-> task[Caller].turn_number]
          IN  (/\ a.npc_name = lastOp.who
               /\ a.action_type = MOVE
               /\ InSeq(Groups[g].req.recent, departure))
              => /\ get_character_location(LM, a.npc_name) = a.target
                 /\ InSeq(connected_to(Groups[g].loc), a.target)

\* the clues whose discovered flag was set during turn n of the session
DiscoveredInTurn(n) ==
    {k \in ClueIds : clues[k].discovered /\ clues[k].discovered_at_turn = n}

\* C37: TurnResult.clues_discovered of a turn is exactly the set of clues
\* whose discovered flag changed from false to true during that turn, by
\* INVESTIGATE or by TALK, so the new-clue count of the narrative summary is
\* the number of clues discovered in the turn.
C37_ResultListsCluesOfTheTurn ==
    TurnReturned
    => LET r == lastOp.ret
       IN  /\ {r.clues_discovered[i] : i \in DOMAIN r.clues_discovered}
                 = DiscoveredInTurn(r.turn_number)
           /\ r.narrative_summary.new_clues
                 = Cardinality(DiscoveredInTurn(r.turn_number))

\* the response text of the player action the step resolved
ResponseOfStep ==
    IF lastOp'.outcome = RETURNED THEN lastOp'.ret.player_action_response
    ELSE task'[Caller].response

\* the step accepts a WAIT, or a MOVE that move_character refuses
WaitOrFailedMoveStep ==
    /\ task[Caller].pc = "idle"
    /\ lastOp'.outcome # RAISED
    /\ \/ lastOp'.op = "player_wait"
       \/ /\ lastOp'.op = "player_move"
          /\ ResponseOfStep = "You can't reach that location"

\* C33: resolving a player WAIT changes nothing: from the start of the turn
\* to the start of agent resolution the location graph, the clue ledger, the
\* knowledge states and the conversation histories are unchanged; the same
\* holds for a player MOVE that fails, and both consume the turn.
C33_WaitAndFailedMoveChangeNothing ==
    [][WaitOrFailedMoveStep
       => /\ UNCHANGED <<locVars, clueVars, knowVars, conv_hist>>
          /\ tm_turn' = tm_turn + 1
          /\ current_turn' = current_turn + 1]_vars

\* a MOVE of the player to a location that is not adjacent was refused and
\* the agents of the turn are about to be resolved
C33_Witness ==
    /\ lastOp.op = "player_move"
    /\ lastOp.outcome = SUSPENDED
    /\ task[Caller].pc = "npc_wait"
    /\ task[Caller].response = "You can't reach that location"
    /\ \A g \in DOMAIN Groups : Groups[g].actions = <<>>
    /\ get_character_location(LM, Player) = "L1"
    /\ current_turn = 1

\* the step belongs to the agent-resolution phase of the caller's turn
AgentPhaseStep == task[Caller].pc \in {"npc_wait", "gathered"}

\* the step binds fresh managers or replaces the session
FreshManagersStep == bind_count' # bind_count \/ lastOp'.op = "new_game"

\* C38: the agent-resolution phase changes only the location graph: it leaves
\* every clue and every knowledge state unchanged, so every discovered clue
\* has the player as discoverer and the conversation records of the NPCs only
\* ever grow, and only by a TALK of the player.
C38_AgentPhaseChangesOnlyLocations ==
    [][/\ AgentPhaseStep => UNCHANGED <<clueVars, knowVars, conv_hist>>
       /\ (AgentPhaseStep /\ task'[Caller].pc # "idle")
          => UNCHANGED <<sessionVars, tmVars>>
       /\ \A k \in ClueIds :
             clues'[k].discovered => clues'[k].discovered_by = Player
       /\ ~FreshManagersStep
          => /\ \A n \in NpcSet : conv_had'[n] >= conv_had[n]
             /\ conv_had' # conv_had => TalkCompleted]_vars

\* an NPC next to the player announced a search, another one walked away,
\* after the player had found the clue of the room
C38_Witness ==
    /\ task[Caller].pc = "gathered"
    /\ task[Caller].op = "player_investigate"
    /\ clues["c1"] = [discovered |-> TRUE, discovered_by |-> Player,
                      discovered_at_turn |-> 1]
    /\ \E g \in DOMAIN Groups : \E i, j \in DOMAIN Groups[g].actions :
          /\ Groups[g].actions[i].action_type = INVESTIGATE
          /\ Groups[g].actions[j].action_type = MOVE
          /\ get_character_location(LM, Groups[g].actions[j].npc_name)
               = Groups[g].actions[j].target
          /\ Groups[g].actions[j].target # Groups[g].loc

\* C39: no sequence of engine operations brings a session to FINISHED, and
\* ACCUSATION is never the state of a bound session when an engine operation
\* returns or suspends: player_accuse sets it and replaces it by RESULTS
\* before its first suspension point.
C39_NeverFinishedNorLeftInAccusation ==
    /\ session => state # FINISHED
    /\ (session /\ scenario.bound /\ lastOp.outcome \in {RETURNED, SUSPENDED})
       => state # ACCUSATION

\* an accusation made in PLAYING on a bound session is suspended at the
\* oracle call of the ending, the session being in RESULTS
C39_Witness ==
    /\ lastOp.op = "player_accuse"
    /\ lastOp.outcome = SUSPENDED
    /\ lastOp.called_in = PLAYING
    /\ scenario.bound
    /\ task[Caller].pc = "ending_wait"
    /\ state = RESULTS

\* the step accepts a turn submission of some request
AcceptedSubmission ==
    \E t \in TaskIds : task[t].pc = "idle" /\ task'[t].pc \in TurnPcs

\* C36: in a session bound once with max_turns >= 1, current_turn <= max_turns
\* holds in every reachable state, under sequential and under interleaved
\* concurrent turn submissions; every accepted submission counts, so the
\* session has left PLAYING after at most max_turns accepted submissions,
\* whether or not those turns completed without error.
C36_TurnCounterBoundedByMaxTurns ==
    [][/\ (session' /\ bind_count' = 1 /\ max_turns' >= 1)
          => /\ current_turn' <= max_turns'
             /\ state' = PLAYING => current_turn' < max_turns'
       /\ AcceptedSubmission
          => /\ state = PLAYING
             /\ current_turn' = current_turn + 1
       /\ current_turn' > current_turn => AcceptedSubmission]_vars

\* two turns submitted concurrently are both in flight, one of them as the
\* last turn the session allows: the session has left PLAYING
C36_Witness ==
    /\ bind_count = 1
    /\ max_turns >= 1
    /\ current_turn = max_turns
    /\ state = RESULTS
    /\ Cardinality({t \in TaskIds : task[t].pc \in TurnPcs}) = 2

\* the caller's turn is between its acceptance and its end
TurnInFlight == task[Caller].pc \in TurnPcs

\* the NPCs whose decision request is waiting for the oracle
Requested == {Groups[g].req.npc : g \in Pending}

\* the actions recorded so far for NPC n in the turn in flight
ActionsOf(n) ==
    {<<g, i>> \in (DOMAIN Groups) \X (1 .. Len(Npcs)) :
        i \in DOMAIN Groups[g].actions /\ Groups[g].actions[i].npc_name = n}

\* C32: if every oracle call eventually returns or fails, every turn accepted
\* in PLAYING eventually returns; during it at most one oracle call is issued
\* per resolved agent and at most one for a player TALK, and a call that
\* failed is never repeated.
C32_AcceptedTurnReturnsWithoutRetry ==
    /\ TurnInFlight ~> ~TurnInFlight
    /\ [][(TurnInFlight /\ ~TurnInFlight') => lastOp'.outcome = RETURNED]_vars
    /\ [](TurnInFlight
          => /\ \A n \in NpcSet : Cardinality(ActionsOf(n)) <= 1
             /\ \A n \in Requested : ActionsOf(n) = {}
             /\ \A g, h \in Pending :
                   Groups[g].req.npc = Groups[h].req.npc => g = h)
    /\ [][/\ task[Caller].pc = "talk_wait" => task'[Caller].pc # "talk_wait"
          /\ task'[Caller].pc = "talk_wait" => task[Caller].pc = "idle"
          /\ task[Caller].pc = "npc_wait"
             => /\ Requested \ Requested' = {lastOp'.who}
                /\ Cardinality(Requested' \ Requested) <= 1]_vars

=============================================================================
